---------------------------- MODULE Spec2Model ----------------------------
(***************************************************************************)
(* Model of scripts/parse_divan.py: a one-shot scraper that fetches the    *)
(* catalogue pages 1..N, extracts price strings with one regular           *)
(* expression, concatenates the per-page results and writes a one-column   *)
(* CSV file.                                                               *)
(*                                                                         *)
(* Text is a sequence of one-character strings.  SANY reads ASCII only, so *)
(* the Cyrillic letters of the currency suffix are transliterated: "r",    *)
(* "u", "b" stand for U+0440, U+0443, U+0431.  An HTML document is a       *)
(* sequence of characters in which the element TAG stands for one complete *)
(* markup tag (the tokenisation html.parser performs).                     *)
(***************************************************************************)
EXTENDS Integers, Sequences, FiniteSets, TLC

VARIABLES
    pc,          \* position of the single thread of control
    pages,       \* collect_prices: parameter pages (N)
    page_num,    \* collect_prices: loop variable
    url,         \* collect_prices: url of the current iteration
    resp,        \* what the network did with the last requests.get
    html,        \* collect_prices: html, the value fetch_page returned
    page_prices, \* collect_prices: page_prices, the last extraction result
    all_prices,  \* collect_prices: all_prices; main: prices
    trace,       \* history: the GET requests and sleeps, in order
    fetched,     \* history: the value fetch_page returned for each page
    file0,       \* the output file as it was before the run
    file,        \* the output file on disk
    save_calls,  \* history: number of calls of save_to_csv
    ret,         \* <<>> until main returns, then <<status>>
    exc          \* "none", or the exception that left main

vars == <<pc, pages, page_num, url, resp, html, page_prices, all_prices,
          trace, fetched, file0, file, save_calls, ret, exc>>

-----------------------------------------------------------------------------
(* Bounds of the model.                                                    *)

MaxPages == 3
MaxPieces == 4

-----------------------------------------------------------------------------
(* Characters.                                                             *)

Digits == {"0", "1", "2", "3", "4", "5", "6", "7", "8", "9"}

\* What \s matches and what str.strip() removes, as far as a string of this
\* module can hold it (the vertical tab and the spaces beyond ASCII, such as
\* U+00A0, are left out).
Whitespace == {" ", "\t", "\n", "\r", "\f"}

TAG == "<tag>"

\* The literal tail of PRICE_PATTERN: the three Cyrillic letters and "\.".
PRICE_SUFFIX == <<"r", "u", "b", ".">>

-----------------------------------------------------------------------------
(* BeautifulSoup(html, "html.parser").get_text(" ", strip=True)            *)

RECURSIVE lstrip(_)
lstrip(s) ==
    IF s # <<>> /\ Head(s) \in Whitespace THEN lstrip(Tail(s)) ELSE s

RECURSIVE rstrip(_)
rstrip(s) ==
    IF s # <<>> /\ s[Len(s)] \in Whitespace
    THEN rstrip(SubSeq(s, 1, Len(s) - 1))
    ELSE s

strip(s) == rstrip(lstrip(s))

\* The text nodes of the document, in document order: the character runs
\* between tags.
RECURSIVE StringsFrom(_, _, _)
StringsFrom(doc, cur, acc) ==
    IF doc = <<>> THEN Append(acc, cur)
    ELSE IF Head(doc) = TAG
         THEN StringsFrom(Tail(doc), <<>>, Append(acc, cur))
         ELSE StringsFrom(Tail(doc), Append(cur, Head(doc)), acc)

all_strings(doc) == StringsFrom(doc, <<>>, <<>>)

RECURSIVE join(_, _)
join(sep, strs) ==
    IF strs = <<>> THEN <<>>
    ELSE IF Len(strs) = 1 THEN strs[1]
    ELSE strs[1] \o sep \o join(sep, Tail(strs))

StripEach(strs) == [i \in 1..Len(strs) |-> strip(strs[i])]

NonEmpty(s) == s # <<>>

\* Every text node is stripped, the empty ones are dropped, the rest are
\* joined by the separator.
get_text(doc, sep) == join(sep, SelectSeq(StripEach(all_strings(doc)), NonEmpty))

-----------------------------------------------------------------------------
(* PRICE_PATTERN = re.compile(r"\d[\d\s]+rub\.") and its findall           *)

StartsWithAt(text, i, lit) ==
    /\ i + Len(lit) - 1 <= Len(text)
    /\ SubSeq(text, i, i + Len(lit) - 1) = lit

\* The lengths k >= 1 of a run of [\d\s] after position i that the literal
\* suffix follows: the ways the pattern can match at i.
RunLengths(text, i) ==
    {k \in 1..(Len(text) - i) :
        /\ \A j \in 1..k : text[i + j] \in Digits \cup Whitespace
        /\ StartsWithAt(text, i + k + 1, PRICE_SUFFIX)}

SetMax(S) == CHOOSE m \in S : \A n \in S : n <= m

\* The index of the last character of the match that starts at i, or 0 when
\* the pattern does not match at i.  The quantifier + is greedy.
PatternMatchEnd(text, i) ==
    IF i <= Len(text) /\ text[i] \in Digits /\ RunLengths(text, i) # {}
    THEN i + SetMax(RunLengths(text, i)) + Len(PRICE_SUFFIX)
    ELSE 0

\* findall: the leftmost match, then the scan resumes after its end.
RECURSIVE FindallFrom(_, _)
FindallFrom(text, i) ==
    IF i > Len(text) THEN <<>>
    ELSE LET e == PatternMatchEnd(text, i)
         IN  IF e > 0
             THEN <<SubSeq(text, i, e)>> \o FindallFrom(text, e + 1)
             ELSE FindallFrom(text, i + 1)

findall(text) == FindallFrom(text, 1)

-----------------------------------------------------------------------------
(* extract_prices_from_html                                                *)

\* The loop "for price in matches": seen is the set, acc is unique_prices.
RECURSIVE UniqueLoop(_, _, _)
UniqueLoop(matches, seen, acc) ==
    IF matches = <<>> THEN acc
    ELSE IF Head(matches) \notin seen
         THEN UniqueLoop(Tail(matches), seen \cup {Head(matches)},
                         Append(acc, Head(matches)))
         ELSE UniqueLoop(Tail(matches), seen, acc)

\* A bug the loop could have: every match is kept.
unique_prices_keep_all(matches) == matches

\* Another: a repeated value moves to the place of its last occurrence.
RECURSIVE unique_prices_keep_last(_)
unique_prices_keep_last(matches) ==
    IF matches = <<>> THEN <<>>
    ELSE IF \E i \in 2..Len(matches) : matches[i] = Head(matches)
         THEN unique_prices_keep_last(Tail(matches))
         ELSE <<Head(matches)>> \o unique_prices_keep_last(Tail(matches))

unique_prices(matches) == UniqueLoop(matches, {}, <<>>)

page_text(doc) == get_text(doc, <<" ">>)

extract_prices_from_html(doc) == unique_prices(findall(page_text(doc)))

-----------------------------------------------------------------------------
(* Configuration                                                           *)

BASE_URL == "https://www.divan.ru/category/divany"
PAGES_TO_FETCH == 2
\* 1.5 seconds; the model only passes the value on to time.sleep.
REQUEST_DELAY == "1.5"

-----------------------------------------------------------------------------
(* fetch_page                                                              *)

\* The exception classes "except requests.RequestException" catches, as far
\* as requests.get and raise_for_status raise them.
RequestException == {"Timeout", "ConnectionError", "TooManyRedirects", "HTTPError"}

\* A bug: only the server errors are raised.
raise_for_status_server_only(status) ==
    IF 500 <= status /\ status < 600 THEN "HTTPError" ELSE "none"

\* Response.raise_for_status: HTTPError for a 4xx or a 5xx status.
raise_for_status(status) ==
    IF 400 <= status /\ status < 600 THEN "HTTPError" ELSE "none"

NoneValue == [raised |-> "none", none |-> TRUE, text |-> <<>>]

\* The value of fetch_page(url) when the network answers with outcome:
\* none is "the value is None", raised an exception that leaves fetch_page.
fetch_page(outcome) ==
    LET raised == IF outcome.kind = "response"
                  THEN raise_for_status(outcome.status)
                  ELSE outcome.kind
    IN  IF raised = "none"
        THEN [raised |-> "none", none |-> FALSE, text |-> outcome.text]
        ELSE IF raised \in RequestException
             THEN NoneValue
             ELSE [raised |-> raised, none |-> TRUE, text |-> <<>>]

-----------------------------------------------------------------------------
(* build_page_url                                                          *)

\* A bug: the first page gets the query parameter too.
build_page_url_always_query(base_url, page) ==
    base_url \o "?page=" \o ToString(page)

build_page_url(base_url, page) ==
    IF page = 1 THEN base_url ELSE base_url \o "?page=" \o ToString(page)

-----------------------------------------------------------------------------
(* save_to_csv                                                             *)

CSV_HEADER == <<"p", "r", "i", "c", "e", "_", "r", "a", "w", "\n">>

RECURSIVE Flatten(_)
Flatten(strs) == IF strs = <<>> THEN <<>> ELSE Head(strs) \o Flatten(Tail(strs))

\* price.replace('"', '""')
escaped(price) ==
    Flatten([i \in 1..Len(price) |->
                IF price[i] = "\"" THEN <<"\"", "\"">> ELSE <<price[i]>>])

csv_line(price) == <<"\"">> \o escaped(price) \o <<"\"", "\n">>

\* The arguments of the calls of f.write, in order.
csv_writes(prices) ==
    <<CSV_HEADER>> \o [i \in 1..Len(prices) |-> csv_line(prices[i])]

\* The text of the file after the first k calls of f.write (the byte-order
\* mark of utf-8-sig is below the level of text).
csv_text(prices, k) == Flatten(SubSeq(csv_writes(prices), 1, k))

NoFile == [exists |-> FALSE, data |-> <<>>]
FileWith(data) == [exists |-> TRUE, data |-> data]

-----------------------------------------------------------------------------
(* The environment: what the site may answer, and the disk before the run  *)

PriceA == <<"1", "0", " ">> \o PRICE_SUFFIX
PriceB == <<"2", "0", " ">> \o PRICE_SUFFIX

DocEmpty == <<>>
DocNoPrice == <<TAG, "x", TAG>>
DocOne == <<TAG>> \o PriceA \o <<TAG>>
DocRepeat == PriceA \o <<"x">> \o PriceB \o <<TAG>> \o PriceA
\* A price whose digit groups are separated by a line break in the markup.
DocBreak == <<TAG, "1", "\n", "0", " ", TAG>> \o PRICE_SUFFIX

Docs == {DocEmpty, DocNoPrice, DocOne, DocRepeat, DocBreak}

StatusCodes == {200, 300, 404, 503}

Failure(kind) == [kind |-> kind, status |-> 0, text |-> <<>>]

\* What one requests.get can end in: a response with a status and a body
\* (redirects already followed), or an exception.
NetOutcomes ==
    [kind : {"response"}, status : StatusCodes, text : Docs]
    \cup {Failure("Timeout"), Failure("ConnectionError"), Failure("TooManyRedirects")}

NoOutcome == Failure("none")

OldFile == FileWith(csv_text(<<PriceB>>, 2))

GetEvent(page, u) == [op |-> "GET", page |-> page, arg |-> u]
SleepEvent(page, delay) == [op |-> "sleep", page |-> page, arg |-> delay]

-----------------------------------------------------------------------------
(* The run: main -> collect_prices -> save_to_csv                          *)

\* PAGES_TO_FETCH is a value to be edited in the source (1 to 5 by its
\* comment), and collect_prices takes any page count: the run starts with
\* any N from 1 to MaxPages.  The output file is absent or left by an
\* earlier run.
Init ==
    /\ pc = "main"
    /\ pages \in 1..MaxPages
    /\ page_num = 0
    /\ url = ""
    /\ resp = NoOutcome
    /\ html = NoneValue
    /\ page_prices = <<>>
    /\ all_prices = <<>>
    /\ trace = <<>>
    /\ fetched = <<>>
    /\ file0 \in {NoFile, OldFile}
    /\ file = file0
    /\ save_calls = 0
    /\ ret = <<>>
    /\ exc = "none"

\* The head of "for page_num in range(1, pages + 1)" with the loop variable
\* at n: the next iteration, or the statements after the loop.
LoopHead(n) == IF n <= pages THEN "fetch" ELSE "collected"

\* main calls collect_prices; all_prices = [] and the loop starts.
CollectStart ==
    /\ pc = "main"
    /\ all_prices' = <<>>
    /\ page_num' = 1
    /\ pc' = LoopHead(1)
    /\ UNCHANGED <<pages, url, resp, html, page_prices, trace, fetched,
                   file0, file, save_calls, ret, exc>>

\* url = build_page_url(...); html = fetch_page(url); if html is None:
\* continue.
Fetch ==
    /\ pc = "fetch"
    /\ \E outcome \in NetOutcomes :
        LET u == build_page_url(BASE_URL, page_num)
            r == fetch_page(outcome)
        IN  /\ url' = u
            /\ resp' = outcome
            /\ trace' = Append(trace, GetEvent(page_num, u))
            /\ IF r.raised # "none"
               THEN /\ exc' = r.raised
                    /\ pc' = "done"
                    /\ UNCHANGED <<html, fetched, page_num>>
               ELSE /\ html' = r
                    /\ fetched' = Append(fetched, r)
                    /\ exc' = exc
                    /\ IF r.none
                       THEN /\ page_num' = page_num + 1
                            /\ pc' = LoopHead(page_num + 1)
                       ELSE /\ page_num' = page_num
                            /\ pc' = "extract"
    /\ UNCHANGED <<pages, page_prices, all_prices, file0, file, save_calls, ret>>

\* A bug: the page's prices are put in front of the collected ones.
extend_in_front(list, items) == items \o list

\* all_prices.extend(page_prices)
extend(list, items) == list \o items

\* A bug: the pause is taken after the last page too.
pause_needed_after_last(n, total) == n <= total

\* if page_num < pages
pause_needed(n, total) == n < total

\* page_prices = extract_prices_from_html(html); all_prices.extend(...);
\* then the test that guards the pause.
Extract ==
    /\ pc = "extract"
    /\ page_prices' = extract_prices_from_html(html.text)
    /\ all_prices' = extend(all_prices, page_prices')
    /\ IF pause_needed(page_num, pages)
       THEN /\ pc' = "sleep"
            /\ page_num' = page_num
       ELSE /\ page_num' = page_num + 1
            /\ pc' = LoopHead(page_num + 1)
    /\ UNCHANGED <<pages, url, resp, html, trace, fetched, file0, file,
                   save_calls, ret, exc>>

\* time.sleep(delay), the last statement of the loop body.
Sleep ==
    /\ pc = "sleep"
    /\ trace' = Append(trace, SleepEvent(page_num, REQUEST_DELAY))
    /\ page_num' = page_num + 1
    /\ pc' = LoopHead(page_num + 1)
    /\ UNCHANGED <<pages, url, resp, html, page_prices, all_prices, fetched,
                   file0, file, save_calls, ret, exc>>

\* A bug: "if prices is None", which a list never is.
not_prices_is_none(prices) == FALSE

\* if not prices
not_prices(prices) == prices = <<>>

\* collect_prices returns; main: "if not prices: return 1".
MainCheck ==
    /\ pc = "collected"
    /\ IF not_prices(all_prices)
       THEN /\ ret' = <<1>>
            /\ pc' = "done"
       ELSE /\ ret' = ret
            /\ pc' = "save"
    /\ UNCHANGED <<pages, page_num, url, resp, html, page_prices, all_prices,
                   trace, fetched, file0, file, save_calls, exc>>

\* A bug: the loop over the prices stops one short.
saved_text_drops_last(prices) == csv_text(prices, Len(prices))

\* What save_to_csv leaves in the file when every write succeeds.
saved_text(prices) == csv_text(prices, Len(prices) + 1)

\* save_to_csv(prices, OUTPUT_FILE) runs to its end; main returns 0.
SaveToCsv ==
    /\ pc = "save"
    /\ save_calls' = save_calls + 1
    /\ file' = FileWith(saved_text(all_prices))
    /\ ret' = <<0>>
    /\ pc' = "done"
    /\ UNCHANGED <<pages, page_num, url, resp, html, page_prices, all_prices,
                   trace, fetched, file0, exc>>

\* save_to_csv raises OSError, which nothing catches: in mkdir or open (the
\* file is as it was), or in a write after open truncated the file and k
\* writes went through.
SaveToCsvFails ==
    /\ pc = "save"
    /\ save_calls' = save_calls + 1
    /\ \/ file' = file
       \/ \E k \in 0..Len(all_prices) : file' = FileWith(csv_text(all_prices, k))
    /\ exc' = "OSError"
    /\ pc' = "done"
    /\ UNCHANGED <<pages, page_num, url, resp, html, page_prices, all_prices,
                   trace, fetched, file0, ret>>

Next ==
    \/ CollectStart
    \/ Fetch
    \/ Extract
    \/ Sleep
    \/ MainCheck
    \/ SaveToCsv
    \/ SaveToCsvFails

Spec == Init /\ [][Next]_vars

-----------------------------------------------------------------------------
(* extract_prices_from_html on its own, over every document built from at  *)
(* most MaxPieces pieces                                                   *)

Pieces ==
    { <<"1">>, <<"2">>, <<" ">>, <<"\n">>, <<"x">>, <<TAG>>,
      PRICE_SUFFIX, <<"r", "u", "b">>, PriceA, PriceB }

HtmlInputs ==
    { Flatten(ps) : ps \in UNION { [1..n -> Pieces] : n \in 0..MaxPieces } }

InitExtract ==
    /\ pc = "extract_call"
    /\ html \in { [raised |-> "none", none |-> FALSE, text |-> d] : d \in HtmlInputs }
    /\ pages = 1
    /\ page_num = 1
    /\ url = BASE_URL
    /\ resp = NoOutcome
    /\ page_prices = <<>>
    /\ all_prices = <<>>
    /\ trace = <<>>
    /\ fetched = <<>>
    /\ file0 = NoFile
    /\ file = NoFile
    /\ save_calls = 0
    /\ ret = <<>>
    /\ exc = "none"

ExtractCall ==
    /\ pc = "extract_call"
    /\ page_prices' = extract_prices_from_html(html.text)
    /\ pc' = "extract_ret"
    /\ UNCHANGED <<pages, page_num, url, resp, html, all_prices, trace,
                   fetched, file0, file, save_calls, ret, exc>>

NextExtract == ExtractCall

SpecExtract == InitExtract /\ [][NextExtract]_vars

-----------------------------------------------------------------------------
(* Vocabulary of the properties                                            *)

Range(seq) == {seq[i] : i \in 1..Len(seq)}

NoDuplicates(seq) == \A i, j \in 1..Len(seq) : seq[i] = seq[j] => i = j

Count(v, seq) == Cardinality({i \in 1..Len(seq) : seq[i] = v})

\* s as a whole is a match of \d[\d\s]+rub\.
FullMatch(s) ==
    /\ Len(s) >= Len(PRICE_SUFFIX) + 2
    /\ s[1] \in Digits
    /\ \A i \in 2..(Len(s) - Len(PRICE_SUFFIX)) : s[i] \in Digits \cup Whitespace
    /\ SubSeq(s, Len(s) - Len(PRICE_SUFFIX) + 1, Len(s)) = PRICE_SUFFIX

\* Every place <<i, e>> where the text holds a match of the pattern.
MatchSpans(text) ==
    { sp \in {i \in 1..Len(text) : text[i] \in Digits}
             \X {e \in 1..Len(text) : text[e] = "."} :
        sp[1] < sp[2] /\ FullMatch(SubSeq(text, sp[1], sp[2])) }

\* The matches a left-to-right scan reports: those not inside another one.
ScanSpans(text) ==
    { sp \in MatchSpans(text) :
        \A other \in MatchSpans(text) :
            (other[1] <= sp[1] /\ sp[2] <= other[2]) => other = sp }

SetMin(S) == CHOOSE m \in S : \A n \in S : m <= n

\* Where the scan first reports the value v.
FirstStart(text, v) ==
    SetMin({sp[1] : sp \in {q \in ScanSpans(text) : SubSeq(text, q[1], q[2]) = v}})

-----------------------------------------------------------------------------
\* C6: for every input, extract_prices_from_html returns the left-to-right
\* non-overlapping matches of the pattern with later repeats removed: no
\* element occurs twice, every element is a full match of the pattern, the
\* values are exactly the values the scan finds, they stand in the order of
\* their first occurrences in the text, and a text without a match gives
\* the empty list.
C6_ExtractUniqueInOrder ==
    pc = "extract_ret" =>
        LET text == page_text(html.text)
            spans == ScanSpans(text)
        IN  /\ NoDuplicates(page_prices)
            /\ \A i \in 1..Len(page_prices) : FullMatch(page_prices[i])
            /\ Range(page_prices) = {SubSeq(text, sp[1], sp[2]) : sp \in spans}
            /\ \A i, j \in 1..Len(page_prices) :
                  i < j => FirstStart(text, page_prices[i])
                             < FirstStart(text, page_prices[j])
            /\ spans = {} => page_prices = <<>>

\* A text with the matches A, B, A: the result is A, B.
C6_Witness ==
    /\ pc = "extract_ret"
    /\ LET m == findall(page_text(html.text))
       IN  /\ Len(m) = 3
           /\ m[1] = m[3]
           /\ m[1] # m[2]
    /\ page_prices = <<PriceA, PriceB>>

-----------------------------------------------------------------------------
(* Vocabulary of the properties of a run                                   *)

\* collect_prices has returned (main may have gone on).
CollectEnded == pc \in {"collected", "save", "done"}

\* What a page contributes: nothing when its fetch gave None.
PageResult(r) == IF r.none THEN <<>> ELSE extract_prices_from_html(r.text)

RECURSIVE ConcatPages(_)
ConcatPages(rs) ==
    IF rs = <<>> THEN <<>> ELSE PageResult(Head(rs)) \o ConcatPages(Tail(rs))

IsGet(e) == e.op = "GET"
IsSleep(e) == e.op = "sleep"

\* A reader that knows CSV quoting: the records of a one-column file.  A
\* quote opens or closes a quoted field, a doubled quote inside one is a
\* quote, a line feed outside one ends the record.
RECURSIVE CsvRecordsFrom(_, _, _, _)
CsvRecordsFrom(data, quoted, cur, acc) ==
    IF data = <<>> THEN (IF cur = <<>> THEN acc ELSE Append(acc, cur))
    ELSE LET c == Head(data)
             rest == Tail(data)
         IN  IF quoted
             THEN IF c = "\"" /\ rest # <<>> /\ Head(rest) = "\""
                  THEN CsvRecordsFrom(Tail(rest), TRUE, Append(cur, "\""), acc)
                  ELSE IF c = "\""
                       THEN CsvRecordsFrom(rest, FALSE, cur, acc)
                       ELSE CsvRecordsFrom(rest, TRUE, Append(cur, c), acc)
             ELSE IF c = "\""
                  THEN CsvRecordsFrom(rest, TRUE, cur, acc)
                  ELSE IF c = "\n"
                       THEN CsvRecordsFrom(rest, FALSE, <<>>, Append(acc, cur))
                       ELSE CsvRecordsFrom(rest, FALSE, Append(cur, c), acc)

CsvRecords(data) == CsvRecordsFrom(data, FALSE, <<>>, <<>>)

HeaderText == SubSeq(CSV_HEADER, 1, Len(CSV_HEADER) - 1)

\* A reader that takes the file line by line, as a text file is iterated:
\* a line ends at "\n", at "\r" or at "\r\n".
RECURSIVE LinesFrom(_, _, _)
LinesFrom(data, cur, acc) ==
    IF data = <<>> THEN (IF cur = <<>> THEN acc ELSE Append(acc, cur))
    ELSE LET c == Head(data)
             rest == Tail(data)
         IN  IF c = "\r" /\ rest # <<>> /\ Head(rest) = "\n"
             THEN LinesFrom(Tail(rest), <<>>, Append(acc, cur))
             ELSE IF c \in {"\n", "\r"}
                  THEN LinesFrom(rest, <<>>, Append(acc, cur))
                  ELSE LinesFrom(rest, Append(cur, c), acc)

ReadLines(data) == LinesFrom(data, <<>>, <<>>)

RECURSIVE Undouble(_)
Undouble(s) ==
    IF s = <<>> THEN <<>>
    ELSE IF Len(s) >= 2 /\ s[1] = "\"" /\ s[2] = "\""
         THEN <<"\"">> \o Undouble(Tail(Tail(s)))
         ELSE <<Head(s)>> \o Undouble(Tail(s))

\* The outer quotes of a line taken off, the doubled quotes undone.
Unquote(line) ==
    LET a == IF line # <<>> /\ Head(line) = "\"" THEN Tail(line) ELSE line
        b == IF a # <<>> /\ a[Len(a)] = "\"" THEN SubSeq(a, 1, Len(a) - 1) ELSE a
    IN  Undouble(b)

-----------------------------------------------------------------------------
\* C1: for every N and every pattern of fetch outcomes, collect_prices
\* returns the concatenation, in page order 1..N, of
\* extract_prices_from_html(body) over the pages whose fetch gave a body; a
\* page whose fetch failed adds nothing, raises nothing and every later
\* page is still fetched.
C1_ConcatenationInPageOrder ==
    /\ exc \notin RequestException
    /\ pc = "fetch" =>
          /\ Len(fetched) = page_num - 1
          /\ all_prices = ConcatPages(fetched)
    /\ CollectEnded =>
          /\ Len(fetched) = pages
          /\ all_prices = ConcatPages(fetched)

\* Three pages: one price, a failed fetch, two prices.
C1_Witness ==
    /\ pc = "collected"
    /\ pages = 3
    /\ ~fetched[1].none
    /\ fetched[2].none
    /\ ~fetched[3].none
    /\ all_prices = <<PriceA, PriceA, PriceB>>

-----------------------------------------------------------------------------
\* C2: when collect_prices returns the empty list, main returns 1 and
\* save_to_csv is never called: the output file is neither created nor
\* overwritten, a file that was there keeps its contents.
C2_EmptyReturnsOneFileUntouched ==
    (CollectEnded /\ all_prices = <<>>) =>
        /\ pc # "save"
        /\ save_calls = 0
        /\ file = file0
        /\ exc = "none"
        /\ pc = "done" => ret = <<1>>

\* A file was there, one page failed, the other held no price.
C2_Witness ==
    /\ pc = "done"
    /\ ret = <<1>>
    /\ pages = 2
    /\ fetched[1].none
    /\ ~fetched[2].none
    /\ file0 = OldFile
    /\ file = OldFile

-----------------------------------------------------------------------------
\* C3: main returns 0 exactly when at least one price string was collected
\* and save_to_csv ran to its end on the whole collected list; then the file
\* holds the header and one data row per collected string, also when some
\* pages failed; no run returns 0 without the file written.
C3_ExitZeroIffCollectedAndSaved ==
    /\ ret = <<0>> =>
          /\ pc = "done"
          /\ exc = "none"
          /\ all_prices # <<>>
          /\ all_prices = ConcatPages(fetched)
          /\ save_calls = 1
          /\ file.exists
          /\ CsvRecords(file.data) = <<HeaderText>> \o all_prices
    /\ (pc = "done" /\ all_prices # <<>> /\ exc = "none") => ret = <<0>>
    /\ (pc = "done" /\ ret # <<0>>) => (all_prices = <<>> \/ exc # "none")

\* The configured two pages: the first gives one price, the second fails.
C3_Witness ==
    /\ ret = <<0>>
    /\ pages = PAGES_TO_FETCH
    /\ ~fetched[1].none
    /\ fetched[2].none
    /\ all_prices = <<PriceA>>
    /\ CsvRecords(file.data) = <<HeaderText, PriceA>>

-----------------------------------------------------------------------------
\* C4 as stated: the list collect_prices returns and main hands to
\* save_to_csv holds no string twice, also when two pages show the same
\* price.
C4_NoDuplicatesAcrossPages ==
    CollectEnded => NoDuplicates(all_prices)

\* C4 as amended: duplicates are removed within a page only.  In the
\* collected list every string stands once for each fetched page whose text
\* holds it, so at most N times, and twice when two pages show it.
C4_UniqueWithinEachPage ==
    CollectEnded =>
        \A v \in Range(all_prices) :
            Count(v, all_prices) =
                Cardinality({k \in 1..Len(fetched) :
                    /\ ~fetched[k].none
                    /\ v \in Range(findall(page_text(fetched[k].text)))})

\* Two pages that both show the price A twice over: A is collected twice.
C4_Witness ==
    /\ pc = "collected"
    /\ pages = 2
    /\ fetched[1].text = DocRepeat
    /\ fetched[2].text = DocRepeat
    /\ all_prices = <<PriceA, PriceB, PriceA, PriceB>>

-----------------------------------------------------------------------------
\* C5: between every two consecutive page requests there is a pause, for
\* every pattern of fetch outcomes: the request for page k+1 is never issued
\* without a sleep since the request for page k, and there is no sleep after
\* the request for the last page.
C5_PauseBetweenAllRequests ==
    /\ \A i \in 1..(Len(trace) - 1) :
          (IsGet(trace[i]) /\ IsGet(trace[i + 1])) => FALSE
    /\ (CollectEnded /\ trace # <<>>) => ~IsSleep(trace[Len(trace)])

-----------------------------------------------------------------------------
ExpectedUrl(k) ==
    IF k = 1 THEN BASE_URL ELSE BASE_URL \o "?page=" \o ToString(k)

RequestsInOrder ==
    LET gets == SelectSeq(trace, IsGet)
    IN  /\ Len(gets) <= pages
        /\ \A k \in 1..Len(gets) : gets[k] = GetEvent(k, ExpectedUrl(k))
        /\ CollectEnded => Len(gets) = pages

\* An upper bound of the steps collect_prices has left: three per page not
\* yet begun, less what the current page has done.
StepsLeft ==
    CASE pc = "main" -> 3 * pages + 1
      [] pc = "fetch" -> 3 * (pages - page_num + 1)
      [] pc = "extract" -> 3 * (pages - page_num + 1) - 1
      [] pc = "sleep" -> 3 * (pages - page_num + 1) - 2
      [] OTHER -> 0

\* C7: collect_prices issues exactly N GET requests and then ends; the k-th
\* goes to the base URL itself for k = 1 and to base + "?page=" + k for
\* k > 1; the requests go out in ascending page order, one per page, and a
\* failed request is not repeated.  It ends because every step before the
\* end takes the count of steps left down, and the count is never negative.
C7_ExactlyNRequestsThenEnds ==
    /\ []RequestsInOrder
    /\ [][~CollectEnded => (0 <= StepsLeft' /\ StepsLeft' < StepsLeft)]_vars

\* Three pages, the second request failed: three requests, no fourth.
C7_Witness ==
    /\ pc = "collected"
    /\ pages = 3
    /\ fetched[2].none
    /\ Len(SelectSeq(trace, IsGet)) = 3
    /\ url = BASE_URL \o "?page=3"

-----------------------------------------------------------------------------
\* C8 as stated: fetch_page gives None on a timeout, a connection error or
\* a status that is not a success (2xx) status, also when a body came with
\* it; it gives the body only for a successful response; no transport
\* failure is raised past the caller.
IsSuccessStatus(status) == 200 <= status /\ status < 300

C8_NoneUnlessSuccessResponse ==
    resp # NoOutcome =>
        /\ exc \notin RequestException
        /\ html.none <=> ~(resp.kind = "response" /\ IsSuccessStatus(resp.status))
        /\ ~html.none => html.text = resp.text

\* C8 as amended: fetch_page gives None on a timeout, a connection error or
\* a 4xx or 5xx status, also when a body came with it; for every other
\* final response, a 2xx one or a 3xx one that is not followed as a
\* redirect, it gives the body; no transport failure is raised past the
\* caller.
IsErrorStatus(status) == 400 <= status /\ status < 600

C8_NoneOnExceptionOrErrorStatus ==
    resp # NoOutcome =>
        /\ exc \notin RequestException
        /\ html.none <=> ~(resp.kind = "response" /\ ~IsErrorStatus(resp.status))
        /\ html.none => html = NoneValue
        /\ ~html.none => html.text = resp.text

\* A 404 that came with a body full of prices: None, and nothing collected.
C8_Witness ==
    /\ pc = "collected"
    /\ pages = 1
    /\ resp.kind = "response"
    /\ resp.status = 404
    /\ resp.text = DocRepeat
    /\ html.none
    /\ all_prices = <<>>

-----------------------------------------------------------------------------
\* C9: for every list of price strings the extractor can produce, the file
\* save_to_csv writes is the header line and then one line per price string,
\* in order, each in double quotes: read line by line, with the header
\* dropped, the outer quotes taken off and doubled quotes undone, it gives
\* back the list, and it has len(prices) + 1 lines.
C9_LineByLineRoundTrip ==
    ret = <<0>> =>
        LET lines == ReadLines(file.data)
        IN  /\ Len(lines) = Len(all_prices) + 1
            /\ lines[1] = HeaderText
            /\ [i \in 1..(Len(lines) - 1) |-> Unquote(lines[i + 1])] = all_prices

-----------------------------------------------------------------------------
\* C10: a sleep follows page k exactly when the fetch of page k gave a body
\* and k < N: the run is request 1, request 2, ... with one sleep after each
\* such page and none elsewhere, so the sleeps number the successful fetches
\* among the pages 1..N-1 and after a failed fetch the next request follows
\* at once.
Step(e) == [op |-> e.op, page |-> e.page]

RECURSIVE ExpectedSteps(_, _)
ExpectedSteps(k, total) ==
    IF k > total THEN <<>>
    ELSE <<[op |-> "GET", page |-> k]>>
         \o (IF ~fetched[k].none /\ k < total
             THEN <<[op |-> "sleep", page |-> k]>>
             ELSE <<>>)
         \o ExpectedSteps(k + 1, total)

=============================================================================
